---- MODULE Spec2Model ----
(***************************************************************************)
(* A model of the subscription tracker of src/App.tsx: the customer list   *)
(* and the shared-email pool held by the App component, their persistence  *)
(* in localStorage, the CRUD handlers, and the three derived views         *)
(* (calculateSubscriptionDetails, displayCustomers, historyData).          *)
(*                                                                         *)
(* Representation.                                                         *)
(*  - A JavaScript object is a TLA+ record; an absent (undefined) property *)
(*    is a key that is not in the record's DOMAIN.                         *)
(*  - An ISO date string "YYYY-MM-DD" is the triple <<YYYY, MM, DD>>; the  *)
(*    order of the zero-padded strings is the order of the triples.        *)
(*  - A Date is its time value in MINUTES since 1970-01-01T00:00Z.  Every  *)
(*    time value the program computes is a whole number of minutes (UTC    *)
(*    midnights, local midnights, and zone offsets that are whole          *)
(*    minutes), so x / (1000 * 3600 * 24) in milliseconds is x / 1440 in   *)
(*    minutes.                                                             *)
(*  - The time zone of the browser is the variable tz, the offset of local *)
(*    time from UTC in minutes (no daylight saving).                       *)
(*  - new Date().getTime() is the variable now, in abstract milliseconds.  *)
(***************************************************************************)
EXTENDS Integers, Sequences, FiniteSets, TLC

VARIABLES
    customers,      \* useState<Customer[]>            (App.tsx:17)
    netflixEmails,  \* useState<string[]>              (App.tsx:41)
    filterStatus,   \* useState<SubscriptionStatus|'All'> (App.tsx:73)
    filterEmail,    \* useState<string>                (App.tsx:74)
    sortConfig,     \* useState<{key, direction}>      (App.tsx:75)
    storage,        \* localStorage: the 'customers' and 'netflixEmails' keys
    now,            \* the value new Date().getTime() returns
    today,          \* the local calendar date of new Date(), <<y, m, d>>
    tz,             \* local time minus UTC, in minutes
    last,           \* the last handler that ran, with its arguments
    out             \* the value last returned by a derived view or initializer

vars == <<customers, netflixEmails, filterStatus, filterEmail, sortConfig,
          storage, now, today, tz, last, out>>

(***************************************************************************)
(* Program constants                                                       *)
(***************************************************************************)
SHARE_PRICE == 8500
PRIVATE_PRICE == 16000
MinutesPerDay == 1440
ExpiringSoonDays == 7
HistoryMonths == 12

Active == "Active"
ExpiringSoon == "Expiring Soon"
Expired == "Expired"
Share == "Share"
Private == "Private"
DefaultEmails == <<"netflix1@gmail.com", "netflix2@gmail.com">>

(***************************************************************************)
(* Bounds of the model                                                     *)
(***************************************************************************)
MaxMonthsPaid == 3
MaxCustomers == 2
MaxNow == 2
MaxViewCustomers == 3
MaxHistoryCustomers == 2

(***************************************************************************)
(* The Date built-in                                                       *)
(***************************************************************************)
\* Day number (days since 1970-01-01) of the civil date y-m-d; d may lie
\* outside the month, as in MakeDay.
DaysFromCivil(y, m, d) ==
    LET yy == IF m <= 2 THEN y - 1 ELSE y
        era == yy \div 400
        yoe == yy - era * 400
        mp == IF m > 2 THEN m - 3 ELSE m + 9
        doy == (153 * mp + 2) \div 5 + d - 1
        doe == yoe * 365 + yoe \div 4 - yoe \div 100 + doy
    IN era * 146097 + doe - 719468

\* The civil date <<y, m, d>> of a day number.
CivilFromDays(z0) ==
    LET z == z0 + 719468
        era == z \div 146097
        doe == z - era * 146097
        yoe == (doe - doe \div 1460 + doe \div 36524 - doe \div 146096) \div 365
        doy == doe - (365 * yoe + yoe \div 4 - yoe \div 100)
        mp == (5 * doy + 2) \div 153
        d == doy - (153 * mp + 2) \div 5 + 1
        m == IF mp < 10 THEN mp + 3 ELSE mp - 9
        y == yoe + era * 400
    IN <<IF m <= 2 THEN y + 1 ELSE y, m, d>>

\* new Date("YYYY-MM-DD"): a date-only ISO string is UTC midnight.
ParseISODate(s) == DaysFromCivil(s[1], s[2], s[3]) * MinutesPerDay

\* new Date(year, monthIndex, day): local midnight; monthIndex is 0-based and
\* may lie outside 0..11, day may lie outside the month.
LocalDate(year, monthIndex, day) ==
    LET y == year + (monthIndex \div 12)
        m == (monthIndex % 12) + 1
    IN (DaysFromCivil(y, m, 1) + day - 1) * MinutesPerDay - tz

\* getFullYear(), getMonth() (0-based) and getDate() of a time value, in local time.
LocalFields(t) ==
    LET c == CivilFromDays((t + tz) \div MinutesPerDay)
    IN [year |-> c[1], month |-> c[2] - 1, date |-> c[3],
        timeInDay |-> (t + tz) % MinutesPerDay]

\* d.setMonth(monthIndex): the local month replaced, day of month and time of
\* day kept, overflow normalised by MakeDay.
SetMonth(t, monthIndex) ==
    LET f == LocalFields(t)
    IN LocalDate(f.year, monthIndex, f.date) + f.timeInDay

\* new Date() followed by setHours(0, 0, 0, 0).
TodayMidnight == LocalDate(today[1], today[2] - 1, today[3])

\* Math.ceil(a / b) for an integer a and b > 0.
CeilDiv(a, b) == -((-a) \div b)

(***************************************************************************)
(* calculateSubscriptionDetails                                            *)
(***************************************************************************)
ExpiryDate(customer) ==
    LET startDate == ParseISODate(customer.startDate)
    IN SetMonth(startDate, LocalFields(startDate).month + customer.monthsPaid)

\* A slip in the first threshold: a subscription that ends today's midnight
\* is not yet expired.
StatusOfDaysLeft_StrictZero(daysLeft) ==
    IF daysLeft < 0 THEN Expired
    ELSE IF daysLeft <= ExpiringSoonDays THEN ExpiringSoon
    ELSE Active

StatusOfDaysLeft(daysLeft) ==
    IF daysLeft <= 0 THEN Expired
    ELSE IF daysLeft <= ExpiringSoonDays THEN ExpiringSoon
    ELSE Active

calculateSubscriptionDetails(customer) ==
    LET expiryDate == ExpiryDate(customer)
        timeDiff == expiryDate - TodayMidnight
        daysLeft == CeilDiv(timeDiff, MinutesPerDay)
    IN [expiryDate |-> expiryDate, daysLeft |-> daysLeft,
        status |-> StatusOfDaysLeft(daysLeft)]

(***************************************************************************)
(* JSON text and localStorage values                                       *)
(*                                                                         *)
(* A JSON value is tagged with its type: [t |-> "null"], [t |-> "number",  *)
(* n |-> ..], [t |-> "string", s |-> ..], [t |-> "object", props |-> r],   *)
(* [t |-> "array", items |-> seq].  What localStorage.getItem returns is   *)
(* [kind |-> "null"] (no such key), [kind |-> "empty"] (the empty string), *)
(* [kind |-> "garbage"] (text JSON.parse rejects) or [kind |-> "json",     *)
(* json |-> v] (the text of the JSON value v).                             *)
(***************************************************************************)
JNull == [t |-> "null"]
JNumber(n) == [t |-> "number", n |-> n]
JString(s) == [t |-> "string", s |-> s]
JObject(r) == [t |-> "object", props |-> r]
JArray(items) == [t |-> "array", items |-> items]

NoItem == [kind |-> "null"]
EmptyText == [kind |-> "empty"]
GarbageText == [kind |-> "garbage"]
JsonText(v) == [kind |-> "json", json |-> v]

\* JSON.stringify(customers): every property of a customer is a string or a
\* finite number, so every property is written.
StringifyCustomers(list) ==
    JsonText(JArray([i \in 1..Len(list) |-> JObject(list[i])]))

\* JSON.stringify(netflixEmails)
StringifyEmails(list) ==
    JsonText(JArray([i \in 1..Len(list) |-> JString(list[i])]))

\* `saved ? ... : ...`: null and the empty string are falsy.
IsFalsyItem(raw) == raw.kind \in {"null", "empty"}

\* c[k] || dflt for a string-valued property: undefined and '' are falsy.
PropOr(c, k, dflt) == IF k \in DOMAIN c /\ c[k] # "" THEN c[k] ELSE dflt

\* A slip in the migration: the note is taken from the legacy contact alone.
MigrateCustomer_ContactOnly(c) ==
    LET newCustomer ==
            [k \in DOMAIN c \cup {"profileName", "note", "accountType"} |->
                CASE k = "profileName" -> PropOr(c, "profileName", "")
                  [] k = "note" -> PropOr(c, "contact", "")
                  [] k = "accountType" -> PropOr(c, "accountType", Share)
                  [] OTHER -> c[k]]
    IN [k \in DOMAIN newCustomer \ {"contact"} |-> newCustomer[k]]

\* The body of parsedCustomers.map(...) for an item that is an object.
MigrateCustomer(c) ==
    LET newCustomer ==
            [k \in DOMAIN c \cup {"profileName", "note", "accountType"} |->
                CASE k = "profileName" -> PropOr(c, "profileName", "")
                  [] k = "note" -> PropOr(c, "note", PropOr(c, "contact", ""))
                  [] k = "accountType" -> PropOr(c, "accountType", Share)
                  [] OTHER -> c[k]]
    IN [k \in DOMAIN newCustomer \ {"contact"} |-> newCustomer[k]]

\* The body of parsedCustomers.map(...) for any item.  The spread of a number
\* has no own properties and its profileName, note, contact and accountType
\* are undefined; a string spreads into its characters, which the model
\* leaves out; an array item spreads into its indices, likewise.
MigrateItem(item) ==
    IF item.t = "object" THEN MigrateCustomer(item.props)
    ELSE [profileName |-> "", note |-> "", accountType |-> Share]

\* The initializer of customers.  JSON.parse throws on garbage; .map is not a
\* function on a value that is not an array; reading c.profileName throws on a
\* null item.  Each throw is caught and the initializer returns [].
LoadCustomers(raw) ==
    IF IsFalsyItem(raw) THEN <<>>
    ELSE IF raw.kind = "garbage" THEN <<>>
    ELSE IF raw.json.t # "array" THEN <<>>
    ELSE IF \E i \in 1..Len(raw.json.items) : raw.json.items[i].t = "null" THEN <<>>
    ELSE [i \in 1..Len(raw.json.items) |-> MigrateItem(raw.json.items[i])]

\* The initializer of netflixEmails: the JSON value it returns, whatever its
\* type; only a throw of JSON.parse is caught.
LoadEmails(raw) ==
    IF IsFalsyItem(raw) THEN StringifyEmails(DefaultEmails).json
    ELSE IF raw.kind = "garbage" THEN StringifyEmails(DefaultEmails).json
    ELSE raw.json

IsStringArray(v) ==
    /\ v.t = "array"
    /\ \A i \in 1..Len(v.items) : v.items[i].t = "string"

IsObjectArray(v) ==
    /\ v.t = "array"
    /\ \A i \in 1..Len(v.items) : v.items[i].t = "object"

\* A JSON array of strings as the string[] it is in the program.
AsStringList(v) == [i \in 1..Len(v.items) |-> v.items[i].s]

(***************************************************************************)
(* Inputs of the handlers                                                  *)
(***************************************************************************)
\* What CustomerFormModal passes to onSave for a new customer.
FormInputs ==
    <<[customerName |-> "Aye", profileName |-> "P1", startDate |-> <<2024, 1, 15>>,
       monthsPaid |-> 2, amount |-> 8500, note |-> "",
       netflixEmail |-> "netflix1@gmail.com", accountType |-> Share],
      [customerName |-> "Bo", profileName |-> "", startDate |-> <<2024, 1, 31>>,
       monthsPaid |-> 1, amount |-> 16000, note |-> "vip",
       netflixEmail |-> "netflix2@gmail.com", accountType |-> Private]>>

\* What ImportModal passes to onImport: rows with at least customerName,
\* startDate and monthsPaid.
ImportBatches ==
    <<
      <<[customerName |-> "Chit", startDate |-> <<2024, 3, 1>>, monthsPaid |-> 0]>>,
      <<[customerName |-> "Chit", startDate |-> <<2024, 3, 1>>, monthsPaid |-> 0],
        [customerName |-> "Dway", profileName |-> "P2", startDate |-> <<2023, 12, 31>>,
         monthsPaid |-> 3, amount |-> 0, note |-> "paid", netflixEmail |-> "",
         accountType |-> Private]>>
    >>

\* What EmailManagerModal passes to onSave.
EmailLists ==
    <<
      <<>>,
      <<"netflix3@gmail.com", "netflix1@gmail.com">>
    >>

\* What localStorage holds when the page is first opened: nothing, or what an
\* earlier version of the program wrote (records with contact and without
\* profileName, note and accountType).
LegacyCustomer ==
    [id |-> "0", customerName |-> "Old", startDate |-> <<2023, 12, 31>>,
     monthsPaid |-> 1, amount |-> 8500, contact |-> "09-123",
     netflixEmail |-> "netflix1@gmail.com"]

InitialStorages ==
    <<[customers |-> NoItem, netflixEmails |-> NoItem],
      [customers |-> JsonText(JArray(<<JObject(LegacyCustomer)>>)),
       netflixEmails |-> JsonText(JArray(<<JString("netflix2@gmail.com")>>))],
      [customers |-> GarbageText, netflixEmails |-> EmptyText]>>

\* new Date().getTime().toString()
TimeString(t) == ToString(t)

\* `${new Date().getTime()}-${index}`
ImportId(t, index) == ToString(t) \o "-" \o ToString(index)

\* v || 0 for a number-valued property.
NumOr(c, k, dflt) == IF k \in DOMAIN c /\ c[k] # 0 THEN c[k] ELSE dflt

(***************************************************************************)
(* The state after construction: the useState initializers, then the       *)
(* effects of the first render, which write both keys.                     *)
(***************************************************************************)
Persisted(cs, es) ==
    [customers |-> StringifyCustomers(cs), netflixEmails |-> StringifyEmails(es)]

\* last: the handler, the id or sort key it was called with (or the id it
\* assigned), whether the user confirmed (delete), whether the data carried an
\* id (save), and the sort configuration the handler found.
Ran(op, id, confirmed, hasId) ==
    [op |-> op, id |-> id, confirmed |-> confirmed, hasId |-> hasId,
     prevSort |-> sortConfig]

NoOp == Ran("init", "", FALSE, FALSE)
NoOut == [op |-> "none"]

Mount(raw) ==
    /\ customers = LoadCustomers(raw.customers)
    /\ netflixEmails = AsStringList(LoadEmails(raw.netflixEmails))
    /\ filterStatus = "All"
    /\ filterEmail = "All"
    /\ sortConfig = [key |-> "expiryDate", direction |-> "ascending"]
    /\ storage = Persisted(customers, netflixEmails)

Init ==
    /\ \E i \in 1..Len(InitialStorages) : Mount(InitialStorages[i])
    /\ now = 1
    /\ today = <<2024, 3, 15>>
    /\ tz = 390
    /\ last = NoOp
    /\ out = NoOut

(***************************************************************************)
(* Handlers.  Each calls setCustomers or setNetflixEmails at most once; the *)
(* effect that follows the render writes the new value to localStorage.    *)
(***************************************************************************)
Env == <<today, tz, out>>
View == <<filterStatus, filterEmail, sortConfig>>

SetCustomers(next) ==
    /\ customers' = next
    /\ storage' = [storage EXCEPT !.customers = StringifyCustomers(next)]

SetNetflixEmails(next) ==
    /\ netflixEmails' = next
    /\ storage' = [storage EXCEPT !.netflixEmails = StringifyEmails(next)]

\* customers.filter(c => c.id !== id)
WithoutId(list, id) == SelectSeq(list, LAMBDA c : c.id # id)

\* A slip in handleDeleteCustomer: the answer of window.confirm is ignored.
handleDeleteCustomer_Unconfirmed(id, confirmed) ==
    /\ SetCustomers(WithoutId(customers, id))
    /\ last' = Ran("handleDeleteCustomer", id, confirmed, TRUE)
    /\ UNCHANGED <<netflixEmails, now, View, Env>>

handleDeleteCustomer(id, confirmed) ==
    /\ IF confirmed
       THEN SetCustomers(WithoutId(customers, id))
       ELSE UNCHANGED <<customers, storage>>
    /\ last' = Ran("handleDeleteCustomer", id, confirmed, TRUE)
    /\ UNCHANGED <<netflixEmails, now, View, Env>>

\* customers.map(c => c.id === customerData.id ? customerData : c)
ReplaceById(list, customerData) ==
    [i \in 1..Len(list) |->
        IF list[i].id = customerData.id THEN customerData ELSE list[i]]

\* { ...customerData, id: new Date().getTime().toString() }
NewCustomer(customerData, t) == ("id" :> TimeString(t)) @@ customerData

handleSaveCustomer(customerData) ==
    /\ IF "id" \in DOMAIN customerData
       THEN SetCustomers(ReplaceById(customers, customerData))
       ELSE /\ Len(customers) < MaxCustomers
            /\ SetCustomers(Append(customers, NewCustomer(customerData, now)))
    /\ last' = IF "id" \in DOMAIN customerData
               THEN Ran("handleSaveCustomer", customerData.id, FALSE, TRUE)
               ELSE Ran("handleSaveCustomer", TimeString(now), FALSE, FALSE)
    /\ UNCHANGED <<netflixEmails, now, View, Env>>

handleSaveEmails(updatedEmails) ==
    /\ SetNetflixEmails(updatedEmails)
    /\ last' = Ran("handleSaveEmails", "", FALSE, FALSE)
    /\ UNCHANGED <<customers, now, View, Env>>

\* One element of importedCustomers.map((c, index) => ...), the clock read at t.
ImportedCustomer(c, index, t) ==
    [k \in DOMAIN c \cup {"profileName", "amount", "note", "netflixEmail",
                          "accountType", "id"} |->
        CASE k = "profileName" -> PropOr(c, "profileName", "")
          [] k = "amount" -> NumOr(c, "amount", 0)
          [] k = "note" -> PropOr(c, "note", "")
          [] k = "netflixEmail" -> PropOr(c, "netflixEmail", "")
          [] k = "accountType" -> PropOr(c, "accountType", Share)
          [] k = "id" -> ImportId(t, index)
          [] OTHER -> c[k]]

\* times[i] is what new Date().getTime() returns for row i: the clock may
\* advance while the rows are mapped.
handleImportCustomers(importedCustomers, times) ==
    LET n == Len(importedCustomers)
        customersToAdd ==
            [i \in 1..n |-> ImportedCustomer(importedCustomers[i], i - 1, times[i])]
    IN /\ Len(customers) + n <= MaxCustomers
       /\ times[1] = now
       /\ \A i \in 1..(n - 1) : times[i] <= times[i + 1]
       /\ SetCustomers(customers \o customersToAdd)
       /\ now' = times[n]
       /\ last' = Ran("handleImportCustomers", "", FALSE, FALSE)
       /\ UNCHANGED <<netflixEmails, View, Env>>

\* Time passes: the next new Date().getTime() is larger.
Tick ==
    /\ now < MaxNow
    /\ now' = now + 1
    /\ last' = Ran("tick", "", FALSE, FALSE)
    /\ UNCHANGED <<customers, netflixEmails, storage, View, Env>>

\* The page is loaded again: the state is constructed from localStorage.
Reload ==
    /\ customers' = LoadCustomers(storage.customers)
    /\ netflixEmails' = AsStringList(LoadEmails(storage.netflixEmails))
    /\ filterStatus' = "All"
    /\ filterEmail' = "All"
    /\ sortConfig' = [key |-> "expiryDate", direction |-> "ascending"]
    /\ storage' = Persisted(customers', netflixEmails')
    /\ last' = Ran("reload", "", FALSE, FALSE)
    /\ UNCHANGED <<now, Env>>

\* The ids a handler can be called with: those in the list, and those of
\* customers deleted since the table or the form was rendered.
KnownIds == {customers[i].id : i \in 1..Len(customers)} \cup {TimeString(1)}

\* The form's data for an edited customer: the edited fields with the id of
\* customerToEdit.
EditedCustomer(id) ==
    [id |-> id, customerName |-> "Aye Aye", profileName |-> "P1",
     startDate |-> <<2024, 2, 29>>, monthsPaid |-> 3, amount |-> 16000,
     note |-> "renewed", netflixEmail |-> "netflix3@gmail.com",
     accountType |-> Private]

Save ==
    \/ \E i \in 1..Len(FormInputs) : handleSaveCustomer(FormInputs[i])
    \/ \E id \in KnownIds : handleSaveCustomer(EditedCustomer(id))

Delete == \E id \in KnownIds, confirmed \in BOOLEAN : handleDeleteCustomer(id, confirmed)

Import ==
    \E i \in 1..Len(ImportBatches) :
        \E times \in [1..Len(ImportBatches[i]) -> now..MaxNow] :
            handleImportCustomers(ImportBatches[i], times)

SaveEmails == \E i \in 1..Len(EmailLists) : handleSaveEmails(EmailLists[i])

Next == Save \/ Delete \/ Import \/ SaveEmails \/ Tick \/ Reload

Spec == Init /\ [][Next]_vars

(***************************************************************************)
(* Claims about the handlers (checked under Spec)                          *)
(***************************************************************************)
RemoveAt(list, k) == SubSeq(list, 1, k - 1) \o SubSeq(list, k + 1, Len(list))

IndicesOfId(list, id) == {i \in 1..Len(list) : list[i].id = id}

\* C1: a confirmed handleDeleteCustomer(id) for an id in the list removes
\* exactly one record, the one with that id: the list shortens by one and all
\* other records stay, unchanged and in the same order.
C1_DeleteRemovesExactlyOne ==
    [][(/\ last'.op = "handleDeleteCustomer"
        /\ last'.confirmed
        /\ IndicesOfId(customers, last'.id) # {})
       => /\ Len(customers') = Len(customers) - 1
          /\ \E k \in IndicesOfId(customers, last'.id) :
                customers' = RemoveAt(customers, k)]_vars

\* C2: no two records of the customer list have the same id.
C2_IdsUnique ==
    \A i, j \in 1..Len(customers) :
        i # j => customers[i].id # customers[j].id

\* C10: handleSaveCustomer with data carrying an id replaces exactly the one
\* record with that id by the data; the length, the order and every other
\* record are unchanged; with no record of that id the list is unchanged.
C10_UpdateReplacesExactlyOne ==
    [][(last'.op = "handleSaveCustomer" /\ last'.hasId)
       => LET hits == IndicesOfId(customers, last'.id)
          IN /\ Len(customers') = Len(customers)
             /\ hits = {} => customers' = customers
             /\ hits # {} =>
                    \E k \in hits :
                        /\ customers'[k] = EditedCustomer(last'.id)
                        /\ \A i \in 1..Len(customers) :
                              i # k => customers'[i] = customers[i]]_vars

\* C8: what localStorage holds loads back to the customer list and the email
\* list of the state, record for record and in order, and the load-time
\* migration changes no record of a list that was loaded or built by the
\* handlers.
C8_RoundTrip ==
    /\ LoadCustomers(storage.customers) = customers
    /\ IsStringArray(LoadEmails(storage.netflixEmails))
    /\ AsStringList(LoadEmails(storage.netflixEmails)) = netflixEmails
    /\ \A i \in 1..Len(customers) : MigrateCustomer(customers[i]) = customers[i]
    /\ \A i \in 1..Len(customers) : "contact" \notin DOMAIN customers[i]

\* C8: the page was reloaded with a migrated legacy record (its contact now
\* its note), an imported record and an empty email list in localStorage.
C8_Witness ==
    /\ last.op = "reload"
    /\ Len(customers) = 2
    /\ customers[1].note = "09-123"
    /\ customers[2].id = ImportId(1, 0)
    /\ netflixEmails = <<>>

(***************************************************************************)
(* calculateSubscriptionDetails as a function of (startDate, monthsPaid,   *)
(* today, time zone)                                                       *)
(***************************************************************************)
TZOffsets == {-300, 0, 390}

StatusStartDates == {<<2024, 1, 15>>, <<2024, 1, 31>>, <<2023, 12, 31>>, <<2024, 2, 29>>}

StatusTodays ==
    {<<2024, 1, 15>>, <<2024, 3, 7>>, <<2024, 3, 8>>, <<2024, 3, 14>>,
     <<2024, 3, 15>>, <<2024, 3, 16>>}

ACustomer(startDate, monthsPaid) ==
    [id |-> "1", customerName |-> "Aye", profileName |-> "P1",
     startDate |-> startDate, monthsPaid |-> monthsPaid, amount |-> 8500,
     note |-> "", netflixEmail |-> "netflix1@gmail.com", accountType |-> Share]

\* The page opened on a stored list `list`, on the day `day`, in the zone `zone`.
Opened(list, day, zone) ==
    /\ Mount([customers |-> StringifyCustomers(list), netflixEmails |-> NoItem])
    /\ now = 1
    /\ today = day
    /\ tz = zone
    /\ last = NoOp
    /\ out = NoOut

InitStatus ==
    \E startDate \in StatusStartDates, monthsPaid \in 0..MaxMonthsPaid,
       day \in StatusTodays, zone \in TZOffsets :
        Opened(<<ACustomer(startDate, monthsPaid)>>, day, zone)

State == <<customers, netflixEmails, storage, now, View>>

ComputeDetails ==
    /\ out' = [op |-> "details", value |-> calculateSubscriptionDetails(customers[1])]
    /\ UNCHANGED <<State, today, tz, last>>

SpecStatus == InitStatus /\ [][ComputeDetails]_vars

\* C4: the status is decided by daysLeft alone, and daysLeft is the whole-day
\* count (rounded up) from today's midnight to the expiry date: Expired when
\* daysLeft <= 0, which is when today's midnight is at or after the expiry
\* date; ExpiringSoon when 1 <= daysLeft <= 7; Active when daysLeft > 7; and
\* the status is one of the three.
C4_StatusByDaysLeft ==
    out.op = "details" =>
        LET d == out.value
            diff == d.expiryDate - TodayMidnight
        IN /\ d.status \in {Active, ExpiringSoon, Expired}
           /\ (d.daysLeft - 1) * MinutesPerDay < diff
           /\ diff <= d.daysLeft * MinutesPerDay
           /\ d.daysLeft <= 0 => d.status = Expired
           /\ (1 <= d.daysLeft /\ d.daysLeft <= 7) => d.status = ExpiringSoon
           /\ d.daysLeft > 7 => d.status = Active
           /\ d.status = Expired <=> TodayMidnight >= d.expiryDate
           /\ d.status = Active <=> diff > 7 * MinutesPerDay

\* C4: a subscription with exactly seven days left was classified.
C4_Witness ==
    /\ out.op = "details"
    /\ out.value.daysLeft = 7
    /\ out.value.status = ExpiringSoon

(***************************************************************************)
(* processedCustomers and displayCustomers                                 *)
(***************************************************************************)
\* { ...customer, ...calculateSubscriptionDetails(customer) }
processedCustomers ==
    [i \in 1..Len(customers) |->
        calculateSubscriptionDetails(customers[i]) @@ customers[i]]

\* The UTF-16 code units of the strings the model sorts by.
CodeUnits(str) ==
    CASE str = "Aye" -> <<65, 121, 101>>
      [] str = "Bo" -> <<66, 111>>
      [] str = "aung" -> <<97, 117, 110, 103>>
      [] str = "Bo Bo" -> <<66, 111, 32, 66, 111>>
      [] str = "netflix1@gmail.com" -> <<110, 49>>
      [] str = "netflix2@gmail.com" -> <<110, 50>>
      [] str = "netflix3@gmail.com" -> <<110, 51>>
      [] OTHER -> <<>>

\* a < b for sequences of numbers, element by element; a proper prefix is less.
RECURSIVE LexLess(_, _)
LexLess(a, b) ==
    IF b = <<>> THEN FALSE
    ELSE IF a = <<>> THEN TRUE
    ELSE IF Head(a) # Head(b) THEN Head(a) < Head(b)
    ELSE LexLess(Tail(a), Tail(b))

StringKeys == {"customerName", "netflixEmail"}

\* valA < valB as JavaScript compares the property `key` of two processed
\* customers: strings by code units, numbers and Dates by value; a startDate
\* is a zero-padded ISO string, ordered as its triple.
JSLess(key, valA, valB) ==
    IF key \in StringKeys THEN LexLess(CodeUnits(valA), CodeUnits(valB))
    ELSE IF key = "startDate" THEN LexLess(valA, valB)
    ELSE valA < valB

\* The comparison function of filteredCustomers.sort.
Compare(a, b, config) ==
    LET valA == a[config.key]
        valB == b[config.key]
        comparison == IF JSLess(config.key, valB, valA) THEN 1
                      ELSE IF JSLess(config.key, valA, valB) THEN -1
                      ELSE 0
    IN IF config.direction = "ascending" THEN comparison ELSE -comparison

\* Array.prototype.sort(compare): the sort is stable, so for a consistent
\* comparison function the element at `i` comes before the element at `j` iff
\* it compares less, or compares equal and i < j.
StableSort(list, config) ==
    LET n == Len(list)
        Precedes(i, j) ==
            LET c == Compare(list[i], list[j], config)
            IN c < 0 \/ (c = 0 /\ i < j)
        Rank(i) == Cardinality({j \in 1..n : j # i /\ Precedes(j, i)}) + 1
        source == [i \in 1..n |-> Rank(i)]
    IN [p \in 1..n |-> list[CHOOSE i \in 1..n : source[i] = p]]

\* A slip in the filters: a customer passing either filter is kept.
FilteredCustomers_Either ==
    LET processed == processedCustomers
    IN IF filterStatus = "All" \/ filterEmail = "All"
       THEN processed
       ELSE SelectSeq(processed,
                      LAMBDA c : c.status = filterStatus \/ c.netflixEmail = filterEmail)

\* The two filter steps of displayCustomers.
FilteredCustomers ==
    LET processed == processedCustomers
        byStatus == IF filterStatus # "All"
                    THEN SelectSeq(processed, LAMBDA c : c.status = filterStatus)
                    ELSE processed
    IN IF filterEmail # "All"
       THEN SelectSeq(byStatus, LAMBDA c : c.netflixEmail = filterEmail)
       ELSE byStatus

\* displayCustomers under the sort configuration `config`.
DisplayFor(config) ==
    LET filteredCustomers == FilteredCustomers
    IN IF config.key # ""
       THEN StableSort(filteredCustomers, config)
       ELSE filteredCustomers

displayCustomers == DisplayFor(sortConfig)

(***************************************************************************)
(* The filter and sort controls                                            *)
(***************************************************************************)
Data == <<customers, netflixEmails, storage, now>>

\* A slip in handleSort: the direction is not reset for a new key.
SortDirection_KeepOnNewKey(key) ==
    IF sortConfig.direction = "ascending" THEN "descending" ELSE "ascending"

\* The direction handleSort(key) sets.
SortDirection(key) ==
    IF sortConfig.key = key /\ sortConfig.direction = "ascending"
    THEN "descending"
    ELSE "ascending"

handleSort(key) ==
    /\ sortConfig' = [key |-> key, direction |-> SortDirection(key)]
    /\ last' = Ran("handleSort", key, FALSE, FALSE)
    /\ UNCHANGED <<Data, filterStatus, filterEmail, Env>>

\* onChange of the status select.
setFilterStatus(status) ==
    /\ filterStatus' = status
    /\ last' = Ran("setFilterStatus", "", FALSE, FALSE)
    /\ UNCHANGED <<Data, filterEmail, sortConfig, Env>>

\* onChange of the email select, whose options are 'All' and netflixEmails.
setFilterEmail(email) ==
    /\ filterEmail' = email
    /\ last' = Ran("setFilterEmail", "", FALSE, FALSE)
    /\ UNCHANGED <<Data, filterStatus, sortConfig, Env>>

\* The keys CustomerTable sorts by.
SortKeys == {"customerName", "expiryDate", "amount"}

\* The customers a stored list is drawn from.
ViewCustomers ==
    <<[id |-> "1", customerName |-> "Bo", profileName |-> "P1",
       startDate |-> <<2024, 1, 15>>, monthsPaid |-> 2, amount |-> 8500,
       note |-> "", netflixEmail |-> "netflix1@gmail.com", accountType |-> Share],
      [id |-> "2", customerName |-> "aung", profileName |-> "",
       startDate |-> <<2024, 1, 31>>, monthsPaid |-> 1, amount |-> 16000,
       note |-> "vip", netflixEmail |-> "netflix2@gmail.com", accountType |-> Private],
      [id |-> "3", customerName |-> "Aye", profileName |-> "P3",
       startDate |-> <<2023, 12, 31>>, monthsPaid |-> 3, amount |-> 8500,
       note |-> "", netflixEmail |-> "netflix1@gmail.com", accountType |-> Share],
      [id |-> "4", customerName |-> "Bo Bo", profileName |-> "P4",
       startDate |-> <<2024, 2, 29>>, monthsPaid |-> 1, amount |-> 9000,
       note |-> "", netflixEmail |-> "netflix2@gmail.com", accountType |-> Share]>>

\* The lists of at most MaxViewCustomers distinct customers, in any order.
ViewLists ==
    UNION {{[i \in 1..n |-> ViewCustomers[f[i]]] :
                f \in {g \in [1..n -> 1..Len(ViewCustomers)] :
                          \A i, j \in 1..n : i # j => g[i] # g[j]}} :
           n \in 0..MaxViewCustomers}

InitView ==
    \E list \in ViewLists : Opened(list, <<2024, 3, 10>>, 390)

Sort == \E key \in SortKeys : handleSort(key)

FilterStatus == \E status \in {"All", Active, ExpiringSoon, Expired} : setFilterStatus(status)

FilterEmail ==
    \E email \in {"All"} \cup {netflixEmails[i] : i \in 1..Len(netflixEmails)} :
        setFilterEmail(email)

NextView == Sort \/ FilterStatus \/ FilterEmail \/ Delete

SpecView == InitView /\ [][NextView]_vars

(***************************************************************************)
(* Claims about the view and the controls (checked under SpecView)         *)
(***************************************************************************)
\* C3: a handleDeleteCustomer the user declines changes nothing: not the
\* customer list, the email pool, the filters, the sort configuration or what
\* localStorage holds.
C3_DeclinedDeleteChangesNothing ==
    [][(last'.op = "handleDeleteCustomer" /\ ~last'.confirmed)
       => UNCHANGED <<customers, netflixEmails, filterStatus, filterEmail,
                      sortConfig, storage>>]_vars

\* C3: the user declined to delete a customer that is in the list, with a
\* status filter and a non-default sort in force.
C3_Witness ==
    /\ last.op = "handleDeleteCustomer"
    /\ ~last.confirmed
    /\ IndicesOfId(customers, last.id) # {}
    /\ Len(customers) = 3
    /\ filterStatus = Expired
    /\ sortConfig = [key |-> "customerName", direction |-> "descending"]

Count(list, r) == Cardinality({i \in 1..Len(list) : list[i] = r})

PassesFilters(c) ==
    /\ filterStatus = "All" \/ c.status = filterStatus
    /\ filterEmail = "All" \/ c.netflixEmail = filterEmail

\* C5: displayCustomers holds exactly the customers passing both filters, each
\* as often as it is in the list (every customer once when both filters are
\* 'All'), and nothing that is not in the list.
C5_DisplayIsFilteredList ==
    LET processed == processedCustomers
        display == displayCustomers
    IN /\ \A i \in 1..Len(processed) :
             Count(display, processed[i]) =
                 IF PassesFilters(processed[i]) THEN Count(processed, processed[i]) ELSE 0
       /\ \A j \in 1..Len(display) :
             \E i \in 1..Len(processed) : display[j] = processed[i]
       /\ (filterStatus = "All" /\ filterEmail = "All")
             => Len(display) = Len(customers)

\* C5: both filters are set, one customer of three passes both, one passes the
\* status filter alone and one the email filter alone.
C5_Witness ==
    /\ filterStatus # "All"
    /\ filterEmail # "All"
    /\ Len(customers) = 3
    /\ Len(displayCustomers) = 1
    /\ LET processed == processedCustomers
       IN /\ \E i \in 1..3 : /\ processed[i].status = filterStatus
                             /\ processed[i].netflixEmail # filterEmail
          /\ \E i \in 1..3 : /\ processed[i].status # filterStatus
                             /\ processed[i].netflixEmail = filterEmail

Reverse(list) == [i \in 1..Len(list) |-> list[Len(list) + 1 - i]]

\* The customers' values under `key` are pairwise distinct.
DistinctUnder(key) ==
    LET processed == processedCustomers
    IN \A i, j \in 1..Len(processed) : i # j => processed[i][key] # processed[j][key]

\* C6: handleSort(k) on a key other than the current one sets ascending, on
\* the current key it toggles the direction; and when the customers' values
\* under k are pairwise distinct, the display after handleSort(k) on the
\* current key is the exact reverse of the display before it.
C6_SortToggles ==
    last.op = "handleSort" =>
        LET k == last.id
            before == last.prevSort
        IN /\ sortConfig.key = k
           /\ before.key # k => sortConfig.direction = "ascending"
           /\ before.key = k =>
                  /\ sortConfig.direction # before.direction
                  /\ sortConfig.direction \in {"ascending", "descending"}
                  /\ DistinctUnder(k) => displayCustomers = Reverse(DisplayFor(before))

\* C6: handleSort was called twice in a row on a key under which the three
\* displayed customers differ, and the display is now in descending order.
C6_Witness ==
    /\ last.op = "handleSort"
    /\ last.prevSort = [key |-> "customerName", direction |-> "ascending"]
    /\ sortConfig = [key |-> "customerName", direction |-> "descending"]
    /\ filterStatus = "All"
    /\ filterEmail = "All"
    /\ Len(displayCustomers) = 3
    /\ DistinctUnder("customerName")

(***************************************************************************)
(* historyData                                                             *)
(***************************************************************************)
\* A slip in the overlap test: a subscription ending at the first instant of
\* the month counts for that month.
IsActiveIn_ExpiryInclusive(customer, year, month) ==
    LET startDate == ParseISODate(customer.startDate)
        expiryDate == ExpiryDate(customer)
        monthStartDate == LocalDate(year, month, 1)
        monthEndDate == LocalDate(year, month + 1, 0)
    IN startDate <= monthEndDate /\ expiryDate >= monthStartDate

\* The test of the forEach body; month is 0-based.
IsActiveIn(customer, year, month) ==
    LET startDate == ParseISODate(customer.startDate)
        expiryDate == ExpiryDate(customer)
        monthStartDate == LocalDate(year, month, 1)
        monthEndDate == LocalDate(year, month + 1, 0)
    IN startDate <= monthEndDate /\ expiryDate > monthStartDate

Price(customer) ==
    IF customer.accountType = Private THEN PRIVATE_PRICE ELSE SHARE_PRICE

\* activeUsers and totalIncome after the first n customers of the forEach.
RECURSIVE Accumulate(_, _, _)
Accumulate(n, year, month) ==
    IF n = 0 THEN [activeUsers |-> 0, totalIncome |-> 0]
    ELSE LET acc == Accumulate(n - 1, year, month)
         IN IF IsActiveIn(customers[n], year, month)
            THEN [activeUsers |-> acc.activeUsers + 1,
                  totalIncome |-> acc.totalIncome + Price(customers[n])]
            ELSE acc

\* The record pushed in the iteration i of the for loop.  The month string
\* `${year}-${MM}` is the pair <<year, month + 1>>.
HistoryRecord(i) ==
    LET d == LocalFields(LocalDate(today[1], (today[2] - 1) - i, 1))
        acc == Accumulate(Len(customers), d.year, d.month)
    IN [month |-> <<d.year, d.month + 1>>,
        activeUsers |-> acc.activeUsers,
        totalIncome |-> acc.totalIncome]

\* i runs from 11 down to 0, so the oldest month is first.
historyData == [j \in 1..HistoryMonths |-> HistoryRecord(HistoryMonths - j)]

HistoryCustomers ==
    <<ACustomer(<<2024, 1, 15>>, 2),
      ACustomer(<<2024, 3, 1>>, 1),
      [ACustomer(<<2024, 1, 31>>, 1) EXCEPT !.accountType = Private],
      ACustomer(<<2024, 6, 30>>, 0),
      [ACustomer(<<2023, 12, 31>>, 3) EXCEPT !.accountType = Private]>>

HistoryTodays == {<<2024, 3, 1>>, <<2024, 4, 30>>, <<2024, 12, 31>>, <<2025, 1, 1>>}

\* The lists of at most MaxHistoryCustomers distinct customers, in any order.
HistoryLists ==
    UNION {{[i \in 1..n |-> HistoryCustomers[f[i]]] :
                f \in {g \in [1..n -> 1..Len(HistoryCustomers)] :
                          \A i, j \in 1..n : i # j => g[i] # g[j]}} :
           n \in 0..MaxHistoryCustomers}

InitHistory ==
    \E list \in HistoryLists, day \in HistoryTodays, zone \in TZOffsets :
        Opened(list, day, zone)

ComputeHistory ==
    /\ out' = [op |-> "history", records |-> historyData]
    /\ UNCHANGED <<State, today, tz, last>>

SpecHistory == InitHistory /\ [][ComputeHistory]_vars

\* The month `back` months before the month of today, as <<year, month>>.
MonthBefore(back) ==
    LET index == today[1] * 12 + (today[2] - 1) - back
    IN <<index \div 12, (index % 12) + 1>>

\* The customers whose [startDate, expiryDate) overlaps the month <<y, m>>:
\* startDate is at or before the local midnight that begins the month's last
\* day, and expiryDate is after the local midnight that begins the month.
OverlappingIn(ym) ==
    {i \in 1..Len(customers) :
        /\ ParseISODate(customers[i].startDate) <= LocalDate(ym[1], ym[2], 0)
        /\ ExpiryDate(customers[i]) > LocalDate(ym[1], ym[2] - 1, 1)}

\* Each of the 12 records, oldest month first, counts the customers that
\* overlap its month and sums 8500 per Share and 16000 per Private customer.
HistoryIsOverlapCount ==
    /\ Len(out.records) = 12
    /\ \A j \in 1..12 :
          LET r == out.records[j]
              over == OverlappingIn(r.month)
          IN /\ r.month = MonthBefore(12 - j)
             /\ r.activeUsers = Cardinality(over)
             /\ r.totalIncome =
                    8500 * Cardinality({i \in over : customers[i].accountType = Share})
                    + 16000 * Cardinality({i \in over : customers[i].accountType = Private})

\* The only customer has startDate 2024-01-15 and monthsPaid 2.
OnlyExampleCustomer ==
    /\ Len(customers) = 1
    /\ customers[1].startDate = <<2024, 1, 15>>
    /\ customers[1].monthsPaid = 2

\* The records of the months in `months` count `n` active users.
ExampleCounts(months, n) ==
    \A j \in 1..Len(out.records) :
        out.records[j].month \in months => out.records[j].activeUsers = n

StoredCustomer == ACustomer(<<2024, 1, 15>>, 2)

RawCustomerSamples ==
    <<NoItem, EmptyText, GarbageText,
      JsonText(JNull), JsonText(JNumber(5)), JsonText(JString("x")),
      JsonText(JObject([version |-> 1])),
      JsonText(JArray(<<>>)),
      JsonText(JArray(<<JNumber(1), JNumber(2)>>)),
      JsonText(JArray(<<JNull>>)),
      JsonText(JArray(<<JObject(StoredCustomer), JString("x")>>)),
      JsonText(JArray(<<JObject(LegacyCustomer)>>)),
      JsonText(JArray(<<JObject(StoredCustomer), JObject(LegacyCustomer)>>))>>

RawEmailSamples ==
    <<NoItem, EmptyText, GarbageText,
      JsonText(JNull), JsonText(JNumber(5)), JsonText(JString("netflix1@gmail.com")),
      JsonText(JObject([version |-> 1])),
      JsonText(JArray(<<>>)),
      JsonText(JArray(<<JNumber(1)>>)),
      JsonText(JArray(<<JString("netflix3@gmail.com")>>))>>

\* Before the component is constructed: localStorage holds any two values and
\* the state does not exist yet (the state variables hold placeholders).
InitLoad ==
    /\ \E i \in 1..Len(RawCustomerSamples), j \in 1..Len(RawEmailSamples) :
          storage = [customers |-> RawCustomerSamples[i],
                     netflixEmails |-> RawEmailSamples[j]]
    /\ customers = <<>>
    /\ netflixEmails = <<>>
    /\ filterStatus = "All"
    /\ filterEmail = "All"
    /\ sortConfig = [key |-> "expiryDate", direction |-> "ascending"]
    /\ now = 1
    /\ today = <<2024, 3, 15>>
    /\ tz = 390
    /\ last = NoOp
    /\ out = NoOut

\* The two initializers run; out holds the initial customers (a list of
\* objects) and the initial netflixEmails (a JSON value of any type).
RunInitializers ==
    /\ out' = [op |-> "load",
               customers |-> LoadCustomers(storage.customers),
               netflixEmails |-> LoadEmails(storage.netflixEmails)]
    /\ UNCHANGED <<State, today, tz, last>>

SpecLoad == InitLoad /\ [][RunInitializers]_vars

\* C9: whatever the two keys hold, the initial customer list is a list of
\* records, empty unless the stored value is an array of records, and the
\* initial email pool is a list of strings, the default pair unless the stored
\* value is an array of strings.
C9_LoadFallsBack ==
    out.op = "load" =>
        /\ \/ storage.customers.kind = "json" /\ IsObjectArray(storage.customers.json)
           \/ out.customers = <<>>
        /\ IsStringArray(out.netflixEmails)
        /\ \/ storage.netflixEmails.kind = "json" /\ IsStringArray(storage.netflixEmails.json)
           \/ AsStringList(out.netflixEmails) = DefaultEmails

====
